---------------------------- MODULE Spec2Model ----------------------------
(***************************************************************************)
(* Red Bull network optimizer: the linear program of                       *)
(* optimization/network_model.py, the resilience score of                  *)
(* optimization/kpi_calculator.py, the scenario engine of                  *)
(* optimization/scenario_engine.py and the request handlers of app.py      *)
(* that keep the process-wide results cache.                               *)
(*                                                                         *)
(* Quantities (production, flows, unmet demand, capacities, demands) are   *)
(* counted in steps of 0.1 unit, the materiality threshold of the solution *)
(* extraction, so that a flow at the threshold (1 step) and a flow above   *)
(* it (2 steps) are both values of the model.  Costs are integers per      *)
(* step.  Two quantities of the model are equal within 1e-3 unit exactly   *)
(* when they are equal.  The numbers of a Solution are the exact values of *)
(* the program's expressions; their evaluation in floats is modelled apart *)
(* (pulp.value) for the properties that are about the floats themselves.   *)
(***************************************************************************)
EXTENDS Integers, FiniteSets, Sequences, TLC

VARIABLES
    net,              \* NetworkOptimizer.plants / dcs / markets / routes (read-only tables)
    solver,           \* the answer of the external LP solver to each scenario's program
    baseline_result,  \* ScenarioEngine.baseline_result
    results_cache,    \* app.results_cache: scenario id -> result
    response,         \* the response to the last request, with the number of solves it made
    requests          \* the requests in flight: per caller, the handler's position and locals

vars == <<net, solver, baseline_result, results_cache, response, requests>>

-----------------------------------------------------------------------------
(* Bounds of the model and constants of the program *)

\* Largest capacity of a plant and largest demand of a market, in steps.
MaxQty == 2

\* Largest number of entries of a dc_to_market_flows map handed to the KPI
\* calculator.
MaxRoutes == 9

\* Largest lead_time_days of a route.
MaxLeadTime == 3

\* Largest cost_per_unit_eur of the plant of the one-plant network.
MaxUnitCost == 7

\* Number of significant bits of a float of the model.
MantissaBits == 10

\* network_model.py:144, config.py:22: EUR per unit of unmet demand.
UNMET_DEMAND_PENALTY == 5

\* network_model.py:134: the fixed cost is monthly, the objective annual.
MONTHS_PER_YEAR == 12

\* network_model.py:219-221: a value is kept in the Solution when > 0.1 unit
\* (1 step of the model).
Materiality == 1

\* network_model.py:45: min_fill_rate 0.90, in percent.
MIN_FILL_RATE_PCT == 90

None == [tag |-> "None"]

-----------------------------------------------------------------------------
(* Sums *)

RECURSIVE SumOver(_, _)
\* Sum of f[x] over the finite set S (pulp.lpSum / sum over a column).
SumOver(S, f) ==
    IF S = {} THEN 0
    ELSE LET x == CHOOSE y \in S : TRUE
         IN  f[x] + SumOver(S \ {x}, f)

\* sum(d.values()) of a dict
SumValues(d) == SumOver(DOMAIN d, d)

\* max(d.values()) of a non-empty dict
MaxValue(d) ==
    CHOOSE v \in { d[k] : k \in DOMAIN d } : \A k \in DOMAIN d : v >= d[k]

\* dict.get(key, 0) on a map of flows.
GetOr0(f, k) == IF k \in DOMAIN f THEN f[k] ELSE 0

-----------------------------------------------------------------------------
(* The network tables: plants.csv, distribution_centers.csv, markets.csv,  *)
(* transportation.csv                                                      *)

Plants == {"P1", "P2"}
DCs == {"DC1", "DC2"}
Markets == {"M1", "M2"}

\* The rows of transportation.csv with from_type 'plant' and 'dc', as keys
\* (from_id, to_id).
Topologies ==
    { [ plant_routes |-> {<<"P1", "DC1">>, <<"P2", "DC1">>, <<"P2", "DC2">>},
        dc_routes    |-> {<<"DC1", "M1">>, <<"DC1", "M2">>, <<"DC2", "M2">>} ],
      [ plant_routes |-> {<<"P1", "DC1">>, <<"P1", "DC2">>, <<"P2", "DC2">>},
        dc_routes    |-> {<<"DC1", "M1">>, <<"DC2", "M1">>} ] }

\* Unit costs: one profile in which serving demand is cheaper than the
\* penalty, one in which production at P1 costs more than the penalty, and
\* one in which producing anywhere costs more than the penalty.
CostProfiles ==
    { [ cost_per_unit |-> [p \in Plants |-> IF p = "P1" THEN 1 ELSE 2],
        route_cost    |-> [r \in (Plants \X DCs) \cup (DCs \X Markets) |->
                              IF r[1] \in {"P2", "DC2"} THEN 1 ELSE 0],
        fixed_cost_monthly     |-> [d \in DCs |-> IF d = "DC1" THEN 1 ELSE 0],
        variable_cost_per_unit |-> [d \in DCs |-> IF d = "DC1" THEN 0 ELSE 1] ],
      [ cost_per_unit |-> [p \in Plants |-> IF p = "P1" THEN 6 ELSE 1],
        route_cost    |-> [r \in (Plants \X DCs) \cup (DCs \X Markets) |->
                              IF r[2] \in {"DC2", "M2"} THEN 1 ELSE 0],
        fixed_cost_monthly     |-> [d \in DCs |-> 1],
        variable_cost_per_unit |-> [d \in DCs |-> 0] ],
      [ cost_per_unit |-> [p \in Plants |-> IF p = "P1" THEN 7 ELSE 6],
        route_cost    |-> [r \in (Plants \X DCs) \cup (DCs \X Markets) |->
                              IF r[1] = "P1" THEN 1 ELSE 0],
        fixed_cost_monthly     |-> [d \in DCs |-> 0],
        variable_cost_per_unit |-> [d \in DCs |-> IF d = "DC1" THEN 1 ELSE 0] ] }

\* NetworkOptimizer.load_data: the tables an engine is constructed over.
Networks ==
    { [ capacity      |-> cap,          \* capacity_annual_millions * 1e6
        demand        |-> dem,          \* annual_demand_millions * 1e6
        plant_routes  |-> t.plant_routes,
        dc_routes     |-> t.dc_routes,
        cost_per_unit |-> c.cost_per_unit,
        route_cost    |-> c.route_cost,
        fixed_cost_monthly     |-> c.fixed_cost_monthly,
        variable_cost_per_unit |-> c.variable_cost_per_unit ] :
      cap \in [Plants -> 0..MaxQty], dem \in [Markets -> 0..MaxQty],
      t \in Topologies, c \in CostProfiles }

\* sum(self.markets['annual_demand_millions']) * 1e6
total_demand(n) == SumOver(Markets, n.demand)


-----------------------------------------------------------------------------
(* Scenario constraints: NetworkOptimizer.optimize_baseline,               *)
(* optimize_cost_minimization, optimize_disruption_response                *)

\* The constraints dict: its keys are those of the record's "keys" field.
optimize_baseline_constraints ==
    [ keys |-> {}, disabled_plants |-> {}, min_fill_rate |-> 0 ]

optimize_cost_minimization_constraints ==
    [ keys |-> {"min_fill_rate"}, disabled_plants |-> {},
      min_fill_rate |-> MIN_FILL_RATE_PCT ]

optimize_disruption_response_constraints ==
    [ keys |-> {"disabled_plants"}, disabled_plants |-> {"P1"},
      min_fill_rate |-> 0 ]

-----------------------------------------------------------------------------
(* The linear program of NetworkOptimizer._run_optimization.  An           *)
(* assignment gives a value to every decision variable:                    *)
(*   production[plant], plant_to_dc[route], dc_to_market[route],           *)
(*   unmet_demand[market].                                                 *)

\* production[plant_id]: lowBound=0, upBound=capacity.
production_bounds(n) ==
    { pr \in [Plants -> 0..MaxValue(n.capacity)] :
        \A p \in Plants : pr[p] <= n.capacity[p] }

\* plant_to_dc[key], dc_to_market[key]: lowBound=0 and no upBound.  The
\* enumeration stops at the total demand: under the balance constraints no
\* flow is larger.
flow_bounds(n, routes) == [routes -> 0..total_demand(n)]

\* unmet_demand[market_id]: lowBound=0, upBound=demand.
unmet_bounds(n) ==
    { u \in [Markets -> 0..MaxValue(n.demand)] :
        \A m \in Markets : u[m] <= n.demand[m] }

production_cost(n, a) ==
    SumOver(Plants, [p \in Plants |-> a.production[p] * n.cost_per_unit[p]])

transport_cost_plant_dc(n, a) ==
    SumOver(n.plant_routes,
            [r \in n.plant_routes |-> a.plant_to_dc[r] * n.route_cost[r]])

transport_cost_dc_market(n, a) ==
    SumOver(n.dc_routes,
            [r \in n.dc_routes |-> a.dc_to_market[r] * n.route_cost[r]])

\* Faulty variant of warehousing_cost: the fixed cost of a DC is charged only
\* when the DC ships something.
warehousing_cost_of_used_dcs(n, a) ==
    SumOver(DCs, [d \in DCs |->
        (IF \E m \in Markets : GetOr0(a.dc_to_market, <<d, m>>) > 0
         THEN n.fixed_cost_monthly[d] * MONTHS_PER_YEAR ELSE 0)
        + SumOver(Markets, [m \in Markets |->
              GetOr0(a.dc_to_market, <<d, m>>) * n.variable_cost_per_unit[d]])])

\* The fixed cost of every DC is a constant of the objective.
warehousing_cost(n, a) ==
    SumOver(DCs, [d \in DCs |->
        n.fixed_cost_monthly[d] * MONTHS_PER_YEAR
        + SumOver(Markets, [m \in Markets |->
              GetOr0(a.dc_to_market, <<d, m>>) * n.variable_cost_per_unit[d]])])

\* Faulty variant of unmet_penalty: the penalty term is left out of the
\* objective.
unmet_penalty_omitted(n, a) == 0

unmet_penalty(n, a) ==
    SumOver(Markets, [m \in Markets |-> a.unmet_demand[m] * UNMET_DEMAND_PENALTY])

\* prob += production_cost + ... + unmet_penalty, "Total_Cost"
Total_Cost(n, a) ==
    production_cost(n, a) + transport_cost_plant_dc(n, a)
    + transport_cost_dc_market(n, a) + warehousing_cost(n, a)
    + unmet_penalty(n, a)

\* Faulty variant of Capacity: the scenario's disabled plants are not looked
\* at, every plant keeps its capacity.
Capacity_ignoring_disabled(n, c, production, p) ==
    production[p] <= n.capacity[p]

\* 1. Disabled_<plant> or Capacity_<plant>
Capacity(n, c, production, p) ==
    IF "disabled_plants" \in c.keys /\ p \in c.disabled_plants
    THEN production[p] = 0
    ELSE production[p] <= n.capacity[p]

\* Faulty variant of Plant_balance: <= in place of ==.
Plant_balance_le(production, plant_to_dc, p) ==
    production[p] <= SumOver(DCs, [d \in DCs |-> GetOr0(plant_to_dc, <<p, d>>)])

\* 2. Plant_balance_<plant>: production = outflow
Plant_balance(production, plant_to_dc, p) ==
    production[p] = SumOver(DCs, [d \in DCs |-> GetOr0(plant_to_dc, <<p, d>>)])

\* Faulty variant of DC_balance: <= in place of ==.
DC_balance_le(plant_to_dc, dc_to_market, d) ==
    SumOver(Plants, [p \in Plants |-> GetOr0(plant_to_dc, <<p, d>>)])
    <= SumOver(Markets, [m \in Markets |-> GetOr0(dc_to_market, <<d, m>>)])

\* 3. DC_balance_<dc>: inflow = outflow
DC_balance(plant_to_dc, dc_to_market, d) ==
    SumOver(Plants, [p \in Plants |-> GetOr0(plant_to_dc, <<p, d>>)])
    = SumOver(Markets, [m \in Markets |-> GetOr0(dc_to_market, <<d, m>>)])

\* Faulty variant of Demand: <= in place of ==.
Demand_le(n, dc_to_market, unmet_demand, m) ==
    SumOver(DCs, [d \in DCs |-> GetOr0(dc_to_market, <<d, m>>)]) + unmet_demand[m]
    <= n.demand[m]

\* Faulty variant of Demand: the unmet-demand slack is left out.
Demand_without_slack(n, dc_to_market, unmet_demand, m) ==
    SumOver(DCs, [d \in DCs |-> GetOr0(dc_to_market, <<d, m>>)]) = n.demand[m]

\* 4. Demand_<market>: supply + unmet = demand
Demand(n, dc_to_market, unmet_demand, m) ==
    SumOver(DCs, [d \in DCs |-> GetOr0(dc_to_market, <<d, m>>)]) + unmet_demand[m]
    = n.demand[m]

\* Faulty variant of Min_fill_rate: the constraint is never added.
Min_fill_rate_never_added(n, c, unmet_demand) == TRUE

\* 5. Min_fill_rate: total_unmet <= total_demand * (1 - min_fill_rate), only
\* when the scenario gives min_fill_rate (here in percent, both sides * 100).
Min_fill_rate(n, c, unmet_demand) ==
    "min_fill_rate" \in c.keys =>
        100 * SumOver(Markets, unmet_demand)
            <= total_demand(n) * (100 - c.min_fill_rate)

\* The assignments within the variables' bounds that satisfy constraints 1-5,
\* enumerated one family of variables after the other.
FeasibleAssignments(n, c) ==
    UNION { UNION { UNION {
        { [ production |-> pr, plant_to_dc |-> g,
            dc_to_market |-> f, unmet_demand |-> u ] :
          pr \in { x \in production_bounds(n) :
                     \A p \in Plants : /\ Capacity(n, c, x, p)
                                       /\ Plant_balance(x, g, p) } } :
        g \in { x \in flow_bounds(n, n.plant_routes) :
                  \A d \in DCs : DC_balance(x, f, d) } } :
        f \in { x \in flow_bounds(n, n.dc_routes) :
                  \A m \in Markets : Demand(n, x, u, m) } } :
        u \in { x \in unmet_bounds(n) : Min_fill_rate(n, c, x) } }

\* Faulty variant of Solve: the problem is created with LpMaximize.
Solve_LpMaximize(n, c) ==
    LET F == FeasibleAssignments(n, c)
        costs == { Total_Cost(n, a) : a \in F }
        best == CHOOSE v \in costs : \A w \in costs : v >= w
    IN  IF F = {}
        THEN { [ status |-> "Infeasible", values |-> None ] }
        ELSE { [ status |-> "Optimal", values |-> a ] :
               a \in { x \in F : Total_Cost(n, x) = best } }

\* prob.solve(solver) on a program the solver finishes: status Infeasible,
\* or status Optimal with an assignment of minimal Total_Cost.  (The program
\* is never unbounded: every variable is bounded or tied by an equality to
\* bounded ones.)
Solve(n, c) ==
    LET F == FeasibleAssignments(n, c)
        costs == { Total_Cost(n, a) : a \in F }
        best == CHOOSE v \in costs : \A w \in costs : v <= w
    IN  IF F = {}
        THEN { [ status |-> "Infeasible", values |-> None ] }
        ELSE { [ status |-> "Optimal", values |-> a ] :
               a \in { x \in F : Total_Cost(n, x) = best } }

ScenarioNames == {"baseline", "cost_optimized", "disruption"}

\* The constraints each optimize_* method passes to _run_optimization.
ConstraintsOf(scenario_name) ==
    CASE scenario_name = "baseline" -> optimize_baseline_constraints
      [] scenario_name = "cost_optimized" -> optimize_cost_minimization_constraints
      [] scenario_name = "disruption" -> optimize_disruption_response_constraints

\* The Solution dict built after an Optimal solve: production of every plant,
\* and the flows and unmet demands whose value is > 0.1.
\* Faulty variant of plant_to_dc_flows: a flow of exactly 0.1 is kept.
plant_to_dc_flows_at_threshold(n, a) ==
    [ k \in { r \in n.plant_routes : a.plant_to_dc[r] >= Materiality } |->
        a.plant_to_dc[k] ]

plant_to_dc_flows(n, a) ==
    [ k \in { r \in n.plant_routes : a.plant_to_dc[r] > Materiality } |->
        a.plant_to_dc[k] ]

dc_to_market_flows(n, a) ==
    [ k \in { r \in n.dc_routes : a.dc_to_market[r] > Materiality } |->
        a.dc_to_market[k] ]

unmet_demand_map(n, a) ==
    [ m \in { x \in Markets : a.unmet_demand[x] > Materiality } |->
        a.unmet_demand[m] ]

solution_dict(n, scenario_name, status, a) ==
    [ scenario           |-> scenario_name,
      status             |-> status,
      objective_value    |-> Total_Cost(n, a),
      production         |-> a.production,
      plant_to_dc_flows  |-> plant_to_dc_flows(n, a),
      dc_to_market_flows |-> dc_to_market_flows(n, a),
      unmet_demand       |-> unmet_demand_map(n, a),
      cost_breakdown     |->
          [ production          |-> production_cost(n, a),
            transport_plant_dc  |-> transport_cost_plant_dc(n, a),
            transport_dc_market |-> transport_cost_dc_market(n, a),
            warehousing         |-> warehousing_cost(n, a),
            unmet_penalty       |-> unmet_penalty(n, a) ] ]

\* Faulty variant of prob_solve: the problem is not built afresh; once a
\* baseline solution is held, the solver is handed the baseline's program
\* again and answers that.
prob_solve_reusing_baseline_problem(scenario_name, timed_out) ==
    IF timed_out THEN [ status |-> "Not Solved", values |-> None ]
    ELSE IF baseline_result # None THEN solver["baseline"]
    ELSE solver[scenario_name]

\* prob.solve(solver) under the 30 s time limit: the solver's answer to the
\* program, or no answer in time.
prob_solve(scenario_name, timed_out) ==
    IF timed_out THEN [ status |-> "Not Solved", values |-> None ]
    ELSE solver[scenario_name]

\* Faulty variant of _run_optimization: the status check is left out, and a
\* run the solver did not finish with Optimal returns the solver's starting
\* point (nothing produced, nothing shipped, all demand unmet).
NetworkOptimizer_run_optimization_best_effort(scenario_name, timed_out) ==
    LET answer == prob_solve(scenario_name, timed_out)
        incumbent == [ production   |-> [p \in Plants |-> 0],
                       plant_to_dc  |-> [r \in net.plant_routes |-> 0],
                       dc_to_market |-> [r \in net.dc_routes |-> 0],
                       unmet_demand |-> net.demand ]
    IN  [ ok |-> TRUE, error |-> "",
          solution |-> solution_dict(net, scenario_name, answer.status,
                                     IF answer.values = None THEN incumbent
                                     ELSE answer.values) ]

\* NetworkOptimizer._run_optimization: raises RuntimeError unless the status
\* is Optimal, else returns the Solution.
NetworkOptimizer_run_optimization(scenario_name, timed_out) ==
    LET answer == prob_solve(scenario_name, timed_out)
    IN  IF answer.status # "Optimal"
        THEN [ ok |-> FALSE, solution |-> None,
               error |-> IF answer.status = "Infeasible"
                         THEN "Optimization failed with status: Infeasible"
                         ELSE "Optimization failed with status: Not Solved" ]
        ELSE [ ok |-> TRUE, error |-> "",
               solution |-> solution_dict(net, scenario_name, answer.status,
                                          answer.values) ]

-----------------------------------------------------------------------------
(* KPICalculator._calculate_resilience_score.  The shares and percentages  *)
(* the code computes by division are compared here after multiplying both  *)
(* sides by the divisor.                                                   *)

\* Faulty variant of concentration_deduction: >= in place of >.
concentration_deduction_at_threshold(solution) ==
    LET total_production == SumValues(solution.production)
    IN  IF total_production > 0
        THEN IF 100 * MaxValue(solution.production) >= 40 * total_production
             THEN 20
             ELSE IF 100 * MaxValue(solution.production) >= 35 * total_production
             THEN 10 ELSE 0
        ELSE 0

\* Over-concentration at a single plant: max_plant_share > 0.40 costs 20,
\* > 0.35 costs 10; nothing when total_production is 0.
concentration_deduction(solution) ==
    LET total_production == SumValues(solution.production)
    IN  IF total_production > 0
        THEN IF 100 * MaxValue(solution.production) > 40 * total_production
             THEN 20
             ELSE IF 100 * MaxValue(solution.production) > 35 * total_production
             THEN 10 ELSE 0
        ELSE 0

\* active_dcs = len([f for f in solution['dc_to_market_flows'].values()
\*                   if f > 0]): the number of entries of the flow map.
active_dcs(solution) ==
    Cardinality({ k \in DOMAIN solution.dc_to_market_flows :
                    solution.dc_to_market_flows[k] > 0 })

\* if active_dcs < 8: score -= 15
dc_coverage_deduction(solution) ==
    IF active_dcs(solution) < 8 THEN 15 ELSE 0

\* unmet_pct > 10 costs 20, > 5 costs 10.  (A total demand of 0 makes
\* unmet_pct inf or nan in floating point: inf when some demand is unmet,
\* which is > 10, and nan otherwise, which is not.)
unmet_deduction(solution, demand_total) ==
    LET total_unmet == SumValues(solution.unmet_demand)
    IN  IF 100 * total_unmet > 10 * demand_total THEN 20
        ELSE IF 100 * total_unmet > 5 * demand_total THEN 10
        ELSE 0

\* Faulty variant of calculate_resilience_score: full DC coverage earns 15
\* points instead of its absence costing 15.
calculate_resilience_score_with_bonus(solution, demand_total) ==
    LET score == 100 - concentration_deduction(solution)
                     + (15 - dc_coverage_deduction(solution))
                     - unmet_deduction(solution, demand_total)
    IN  IF score > 0 THEN score ELSE 0

\* KPICalculator._calculate_resilience_score: max(0, score)
calculate_resilience_score(solution, demand_total) ==
    LET score == 100 - concentration_deduction(solution)
                     - dc_coverage_deduction(solution)
                     - unmet_deduction(solution, demand_total)
    IN  IF score > 0 THEN score ELSE 0

-----------------------------------------------------------------------------
(* KPICalculator._calculate_weighted_lead_time.  The quotient the code     *)
(* returns is kept as the pair of its dividend and divisor.                *)

\* Faulty variant of counted_flows: the test flow > 0 is left out.
counted_flows_unfiltered(solution, lead_time_days) ==
    { k \in DOMAIN solution.dc_to_market_flows : k \in DOMAIN lead_time_days }

\* The entries of the flow map the loop adds up: flow > 0 and a row of
\* self.routes from dc_id to market_id.
counted_flows(solution, lead_time_days) ==
    { k \in DOMAIN solution.dc_to_market_flows :
        /\ solution.dc_to_market_flows[k] > 0
        /\ k \in DOMAIN lead_time_days }

\* total_weighted_time / total_volume if total_volume > 0 else 0
calculate_weighted_lead_time(solution, lead_time_days) ==
    LET counted == counted_flows(solution, lead_time_days)
        total_volume ==
            SumOver(counted, solution.dc_to_market_flows)
        total_weighted_time ==
            SumOver(counted, [k \in counted |->
                solution.dc_to_market_flows[k] * lead_time_days[k]])
    IN  IF total_volume > 0
        THEN [ dividend |-> total_weighted_time, divisor |-> total_volume ]
        ELSE [ dividend |-> 0, divisor |-> 1 ]

-----------------------------------------------------------------------------
(* ScenarioEngine *)

\* A quotient of two numbers, kept as dividend and divisor.  A quotient with
\* divisor 0 is the nan or inf that numpy gives for a division by 0.
Quotient(dividend, divisor) == [ dividend |-> dividend, divisor |-> divisor ]

\* a > b on quotients with non-negative divisors; every comparison with the
\* nan of 0 / 0 is False.  (The divisors of the model are total demands and
\* a dividend is 0 whenever its divisor is.)
QuotientGreater(a, b) ==
    /\ a.divisor > 0
    /\ b.divisor > 0
    /\ a.dividend * b.divisor > b.dividend * a.divisor

\* a - b on quotients.
QuotientDifference(a, b) ==
    Quotient(a.dividend * b.divisor - b.dividend * a.divisor,
             a.divisor * b.divisor)

\* fill_rate = ((total_demand - total_unmet) / total_demand) * 100, with
\* total_unmet the sum of the entries of the Solution's unmet_demand map.
fill_rate(solution) ==
    Quotient((total_demand(net) - SumValues(solution.unmet_demand)) * 100,
             total_demand(net))

\* KPICalculator.calculate_kpis, the values the comparison reads.
calculate_kpis(solution) ==
    [ total_cost |-> solution.objective_value,
      fill_rate |-> fill_rate(solution),
      network_resilience_score |->
          calculate_resilience_score(solution, total_demand(net)) ]

\* Faulty variant of compare_to_baseline: the scenario and the baseline are
\* taken the wrong way round in the cost delta.
compare_to_baseline_reversed(baseline, solution) ==
    LET kpis == calculate_kpis(solution)
        baseline_kpis == calculate_kpis(baseline)
    IN  IF baseline = None THEN None
        ELSE [ cost_delta |->
                 [ value |-> baseline.objective_value - solution.objective_value,
                   interpretation |->
                       IF baseline.objective_value < solution.objective_value
                       THEN "savings" ELSE "increase" ],
               fill_rate_delta |->
                 [ value |-> QuotientDifference(kpis.fill_rate,
                                                baseline_kpis.fill_rate),
                   interpretation |->
                       IF QuotientGreater(kpis.fill_rate, baseline_kpis.fill_rate)
                       THEN "improvement" ELSE "degradation" ],
               resilience_delta |->
                 [ value |-> kpis.network_resilience_score
                             - baseline_kpis.network_resilience_score,
                   interpretation |->
                       IF kpis.network_resilience_score
                          > baseline_kpis.network_resilience_score
                       THEN "stronger" ELSE "weaker" ] ]

\* Faulty variant of compare_to_baseline: the tags are given by non-strict
\* comparisons.
compare_to_baseline_non_strict(baseline, solution) ==
    LET kpis == calculate_kpis(solution)
        baseline_kpis == calculate_kpis(baseline)
    IN  IF baseline = None THEN None
        ELSE [ cost_delta |->
                 [ value |-> solution.objective_value - baseline.objective_value,
                   interpretation |->
                       IF solution.objective_value <= baseline.objective_value
                       THEN "savings" ELSE "increase" ],
               fill_rate_delta |->
                 [ value |-> QuotientDifference(kpis.fill_rate,
                                                baseline_kpis.fill_rate),
                   interpretation |->
                       IF ~QuotientGreater(baseline_kpis.fill_rate, kpis.fill_rate)
                       THEN "improvement" ELSE "degradation" ],
               resilience_delta |->
                 [ value |-> kpis.network_resilience_score
                             - baseline_kpis.network_resilience_score,
                   interpretation |->
                       IF kpis.network_resilience_score
                          >= baseline_kpis.network_resilience_score
                       THEN "stronger" ELSE "weaker" ] ]

\* ScenarioEngine.compare_to_baseline: baseline is self.baseline_result, and
\* its KPIs are computed again from it.
compare_to_baseline(baseline, solution) ==
    LET kpis == calculate_kpis(solution)
        baseline_kpis == calculate_kpis(baseline)
    IN  IF baseline = None THEN None
        ELSE [ cost_delta |->
                 [ value |-> solution.objective_value - baseline.objective_value,
                   interpretation |->
                       IF solution.objective_value < baseline.objective_value
                       THEN "savings" ELSE "increase" ],
               fill_rate_delta |->
                 [ value |-> QuotientDifference(kpis.fill_rate,
                                                baseline_kpis.fill_rate),
                   interpretation |->
                       IF QuotientGreater(kpis.fill_rate, baseline_kpis.fill_rate)
                       THEN "improvement" ELSE "degradation" ],
               resilience_delta |->
                 [ value |-> kpis.network_resilience_score
                             - baseline_kpis.network_resilience_score,
                   interpretation |->
                       IF kpis.network_resilience_score
                          > baseline_kpis.network_resilience_score
                       THEN "stronger" ELSE "weaker" ] ]

\* Faulty variant of optimize_dispatch: the final else runs the baseline
\* instead of raising ValueError.
optimize_dispatch_else_baseline(scenario_id, timed_out) ==
    IF scenario_id = "cost_optimized"
    THEN [ known |-> TRUE, stores |-> FALSE,
           out |-> NetworkOptimizer_run_optimization("cost_optimized", timed_out) ]
    ELSE IF scenario_id = "disruption"
    THEN [ known |-> TRUE, stores |-> FALSE,
           out |-> NetworkOptimizer_run_optimization("disruption", timed_out) ]
    ELSE [ known |-> TRUE, stores |-> TRUE,
           out |-> NetworkOptimizer_run_optimization("baseline", timed_out) ]

\* Faulty variant of optimize_dispatch: every branch assigns
\* self.baseline_result.
optimize_dispatch_stores_every_solution(scenario_id, timed_out) ==
    IF scenario_id \in {"baseline", "cost_optimized", "disruption"}
    THEN [ known |-> TRUE, stores |-> TRUE,
           out |-> NetworkOptimizer_run_optimization(scenario_id, timed_out) ]
    ELSE [ known |-> FALSE, stores |-> FALSE,
           out |-> [ ok |-> FALSE, solution |-> None,
                     error |-> "Unknown scenario" ] ]

\* run_scenario's if / elif chain: the optimizer method the scenario id
\* selects, or ValueError for any other id.  "stores" tells whether the branch
\* assigns self.baseline_result.
optimize_dispatch(scenario_id, timed_out) ==
    IF scenario_id = "baseline"
    THEN [ known |-> TRUE, stores |-> TRUE,
           out |-> NetworkOptimizer_run_optimization("baseline", timed_out) ]
    ELSE IF scenario_id = "cost_optimized"
    THEN [ known |-> TRUE, stores |-> FALSE,
           out |-> NetworkOptimizer_run_optimization("cost_optimized", timed_out) ]
    ELSE IF scenario_id = "disruption"
    THEN [ known |-> TRUE, stores |-> FALSE,
           out |-> NetworkOptimizer_run_optimization("disruption", timed_out) ]
    ELSE [ known |-> FALSE, stores |-> FALSE,
           out |-> [ ok |-> FALSE, solution |-> None,
                     error |-> "Unknown scenario" ] ]

\* Faulty variant of run_scenario: the comparison is built whenever a
\* baseline solution is held, for the baseline scenario too.
run_scenario_compares_baseline(scenario_id, timed_out) ==
    LET d == optimize_dispatch(scenario_id, timed_out)
        kept == IF d.out.ok /\ d.stores THEN d.out.solution
                ELSE baseline_result
    IN  IF ~d.out.ok
        THEN [ ok |-> FALSE, error |-> d.out.error, result |-> None,
               baseline_result |-> baseline_result,
               solves |-> IF d.known THEN 1 ELSE 0 ]
        ELSE [ ok |-> TRUE, error |-> "",
               result |->
                 [ scenario_id |-> scenario_id,
                   solution    |-> d.out.solution,
                   kpis        |-> calculate_kpis(d.out.solution),
                   comparison  |->
                       IF kept # None
                       THEN compare_to_baseline(kept, d.out.solution)
                       ELSE None ],
               baseline_result |-> kept, solves |-> 1 ]

\* ScenarioEngine.run_scenario.  The value tells what the call did: whether it
\* returned (ok) or raised (error), the result it returned, the value it left
\* in self.baseline_result and how many times it ran the optimizer.
run_scenario(scenario_id, timed_out) ==
    LET d == optimize_dispatch(scenario_id, timed_out)
        kept == IF d.out.ok /\ d.stores THEN d.out.solution
                ELSE baseline_result
    IN  IF ~d.out.ok
        THEN [ ok |-> FALSE, error |-> d.out.error, result |-> None,
               baseline_result |-> baseline_result,
               solves |-> IF d.known THEN 1 ELSE 0 ]
        ELSE [ ok |-> TRUE, error |-> "",
               result |->
                 [ scenario_id |-> scenario_id,
                   solution    |-> d.out.solution,
                   kpis        |-> calculate_kpis(d.out.solution),
                   comparison  |->
                       IF scenario_id # "baseline" /\ kept # None
                       THEN compare_to_baseline(kept, d.out.solution)
                       ELSE None ],
               baseline_result |-> kept, solves |-> 1 ]

-----------------------------------------------------------------------------
(* app.py: the request handlers *)

\* The callers whose requests the server may be handling at the same time
\* (app.run serves each request in its own thread).
Callers == {"caller1", "caller2"}

\* No handler is running for the caller.
Idle == [ pc |-> "idle" ]

NoRequests == [ t \in Callers |-> Idle ]

\* What a client may send as scenario_id.
ScenarioIds == ScenarioNames \cup {"peak_season"}

\* request.get_json(): a body without scenario_id, or with one.
RequestBodies ==
    { [ keys |-> {}, scenario_id |-> "" ] }
    \cup { [ keys |-> {"scenario_id"}, scenario_id |-> s ] : s \in ScenarioIds }

\* data.get('scenario_id', 'baseline')
scenario_id_of(data) ==
    IF "scenario_id" \in data.keys THEN data.scenario_id ELSE "baseline"

\* Faulty variant of is_cached: the cache is never consulted.
is_cached_never(cache, scenario_id) == FALSE

\* scenario_id in results_cache
is_cached(cache, scenario_id) == scenario_id \in DOMAIN cache

\* results_cache[scenario_id] = result
cache_put(cache, scenario_id, result) ==
    [ k \in DOMAIN cache \cup {scenario_id} |->
        IF k = scenario_id THEN result ELSE cache[k] ]

\* Faulty variant of cache_after_run: the entry is written whether or not the
\* call raised.
cache_after_run_always(cache, scenario_id, r) ==
    [ k \in DOMAIN cache \cup {scenario_id} |->
        IF k = scenario_id THEN r.result ELSE cache[k] ]

\* Faulty variant of cache_after_run: a call that raised invalidates the
\* scenario's entry.
cache_after_run_invalidating(cache, scenario_id, r) ==
    IF r.ok THEN cache_put(cache, scenario_id, r.result)
    ELSE [ k \in DOMAIN cache \ {scenario_id} |-> cache[k] ]

\* result = scenario_engine.run_scenario(...); results_cache[...] = result
\* inside try: the assignment is skipped when the call raises.
cache_after_run(cache, scenario_id, r) ==
    IF r.ok THEN cache_put(cache, scenario_id, r.result) ELSE cache

\* The response to a request, with the number of optimizer runs it made.
Response(endpoint, scenario_id, code, error, result, solves) ==
    [ endpoint |-> endpoint, scenario_id |-> scenario_id, code |-> code,
      error |-> error, result |-> result, solves |-> solves ]

\* POST /api/optimize
run_optimization(data, timed_out) ==
    LET scenario_id == scenario_id_of(data)
        valid_scenarios == {"baseline", "cost_optimized", "disruption"}
        r == run_scenario(scenario_id, timed_out)
    IN  IF scenario_id \notin valid_scenarios
        THEN /\ response' = Response("/api/optimize", scenario_id, 400,
                                     "Invalid scenario", None, 0)
             /\ UNCHANGED <<net, solver, baseline_result, results_cache, requests>>
        ELSE /\ baseline_result' = r.baseline_result
             /\ results_cache' = cache_after_run(results_cache, scenario_id, r)
             /\ response' = Response("/api/optimize", scenario_id,
                                     IF r.ok THEN 200 ELSE 500, r.error,
                                     r.result, r.solves)
             /\ UNCHANGED <<net, solver, requests>>

\* GET /api/kpis
get_kpis(timed_out) ==
    LET r == run_scenario("baseline", timed_out)
    IN  IF ~is_cached(results_cache, "baseline")
        THEN /\ baseline_result' = r.baseline_result
             /\ results_cache' = cache_after_run(results_cache, "baseline", r)
             /\ response' = Response("/api/kpis", "baseline",
                                     IF r.ok THEN 200 ELSE 500, r.error,
                                     r.result, r.solves)
             /\ UNCHANGED <<net, solver, requests>>
        ELSE /\ response' = Response("/api/kpis", "baseline", 200, "",
                                     results_cache["baseline"], 0)
             /\ UNCHANGED <<net, solver, baseline_result, results_cache, requests>>

\* POST /api/export-excel
export_excel(data, timed_out) ==
    LET scenario_id == scenario_id_of(data)
        r == run_scenario(scenario_id, timed_out)
    IN  IF ~is_cached(results_cache, scenario_id)
        THEN /\ baseline_result' = r.baseline_result
             /\ results_cache' = cache_after_run(results_cache, scenario_id, r)
             /\ response' = Response("/api/export-excel", scenario_id,
                                     IF r.ok THEN 200 ELSE 500, r.error,
                                     r.result, r.solves)
             /\ UNCHANGED <<net, solver, requests>>
        ELSE /\ response' = Response("/api/export-excel", scenario_id, 200, "",
                                     results_cache[scenario_id], 0)
             /\ UNCHANGED <<net, solver, baseline_result, results_cache, requests>>

-----------------------------------------------------------------------------
(* The handlers under concurrent requests.  The server runs each request   *)
(* in its own thread and no handler takes a lock, so another request may   *)
(* run between a handler's test of the cache, its call of run_scenario and *)
(* its write to the cache.                                                 *)

Endpoints == {"/api/optimize", "/api/kpis", "/api/export-excel"}

\* A handler starts: it reads the scenario id and either answers at once
\* (/api/optimize: invalid id; /api/kpis, /api/export-excel: cached result)
\* or goes on to call run_scenario.
request_enters_handler(t, endpoint, data) ==
    LET scenario_id == IF endpoint = "/api/kpis" THEN "baseline"
                       ELSE scenario_id_of(data)
        valid_scenarios == {"baseline", "cost_optimized", "disruption"}
    IN  /\ requests[t].pc = "idle"
        /\ IF endpoint = "/api/optimize" /\ scenario_id \notin valid_scenarios
           THEN /\ response' = Response(endpoint, scenario_id, 400,
                                        "Invalid scenario", None, 0)
                /\ UNCHANGED requests
           ELSE IF endpoint # "/api/optimize"
                   /\ is_cached(results_cache, scenario_id)
           THEN /\ response' = Response(endpoint, scenario_id, 200, "",
                                        results_cache[scenario_id], 0)
                /\ UNCHANGED requests
           ELSE /\ requests' = [requests EXCEPT ![t] =
                                  [ pc |-> "run_scenario", endpoint |-> endpoint,
                                    scenario_id |-> scenario_id ]]
                /\ UNCHANGED response
        /\ UNCHANGED <<net, solver, baseline_result, results_cache>>

\* result = scenario_engine.run_scenario(scenario_id)
request_runs_scenario(t, timed_out) ==
    /\ requests[t].pc = "run_scenario"
    /\ LET r == run_scenario(requests[t].scenario_id, timed_out)
       IN  /\ baseline_result' = r.baseline_result
           /\ requests' = [requests EXCEPT ![t] =
                             [ pc |-> "store", endpoint |-> requests[t].endpoint,
                               scenario_id |-> requests[t].scenario_id,
                               r |-> r ]]
    /\ UNCHANGED <<net, solver, results_cache, response>>

\* results_cache[scenario_id] = result and the response, or the except
\* branch when run_scenario raised.
request_stores_result(t) ==
    /\ requests[t].pc = "store"
    /\ LET q == requests[t]
       IN  /\ results_cache' = cache_after_run(results_cache, q.scenario_id, q.r)
           /\ response' = Response(q.endpoint, q.scenario_id,
                                   IF q.r.ok THEN 200 ELSE 500, q.r.error,
                                   q.r.result, q.r.solves)
    /\ requests' = [requests EXCEPT ![t] = Idle]
    /\ UNCHANGED <<net, solver, baseline_result>>

-----------------------------------------------------------------------------
(* pulp.value(expression): the value of an affine expression at the        *)
(* solver's assignment, computed in Python floats.  The Solution above     *)
(* holds the numbers the program computes with, taken exactly; this        *)
(* section adds their float evaluation for the properties that are about   *)
(* the floats themselves.  A float is a binary floating-point number; the  *)
(* model keeps the arithmetic and its rounding (to nearest, ties to even)  *)
(* with MantissaBits significant bits in place of the 53 of a double, on   *)
(* the non-negative integers the model computes with.                      *)

RECURSIVE Spacing(_, _)
\* The distance between neighbouring floats around x >= 0: the least
\* q * 2^k with x < q * 2^k * 2^MantissaBits.
Spacing(x, q) == IF x < q * 2^MantissaBits THEN q ELSE Spacing(x, 2 * q)

\* The float nearest to the number x >= 0.
float(x) ==
    LET q == Spacing(x, 1)
        below == (x \div q) * q
        rest == x - below
    IN  IF 2 * rest < q THEN below
        ELSE IF 2 * rest > q THEN below + q
        ELSE IF (below \div q) % 2 = 0 THEN below ELSE below + q

\* The rows of plants.csv, distribution_centers.csv and markets.csv in file
\* order, and the rows of transportation.csv between two tables in the order
\* generate_transportation_routes writes them (by from_id, then to_id).
plants_rows == <<"P1", "P2">>
dcs_rows == <<"DC1", "DC2">>
markets_rows == <<"M1", "M2">>

routes_rows(routes, from_rows, to_rows) ==
    SelectSeq([ i \in 1..(Len(from_rows) * Len(to_rows)) |->
                  << from_rows[((i - 1) \div Len(to_rows)) + 1],
                     to_rows[((i - 1) % Len(to_rows)) + 1] >> ],
              LAMBDA r : r \in routes)

RECURSIVE pulp_value_from(_, _, _)
\* s += coefficient * value for the terms from the i-th on.  A term is
\* <<coefficient, value>>.
pulp_value_from(s, terms, i) ==
    IF i > Len(terms) THEN s
    ELSE pulp_value_from(float(s + float(terms[i][2] * terms[i][1])),
                         terms, i + 1)

\* LpAffineExpression.value(): the constant, then coefficient * value added
\* term by term.
pulp_value(constant, terms) == pulp_value_from(constant, terms, 1)

\* The terms of the five cost expressions, in the order lpSum adds them.
production_cost_terms(n, a) ==
    [ i \in 1..Len(plants_rows) |->
        << n.cost_per_unit[plants_rows[i]], a.production[plants_rows[i]] >> ]

transport_cost_plant_dc_terms(n, a) ==
    LET rows == routes_rows(n.plant_routes, plants_rows, dcs_rows)
    IN  [ i \in 1..Len(rows) |-> << n.route_cost[rows[i]], a.plant_to_dc[rows[i]] >> ]

transport_cost_dc_market_terms(n, a) ==
    LET rows == routes_rows(n.dc_routes, dcs_rows, markets_rows)
    IN  [ i \in 1..Len(rows) |-> << n.route_cost[rows[i]], a.dc_to_market[rows[i]] >> ]

\* dc_to_market.get((dc_id, market_id), 0) * variable cost, DC by DC; a
\* missing route adds the number 0.
warehousing_cost_terms(n, a) ==
    LET rows == routes_rows(n.dc_routes, dcs_rows, markets_rows)
    IN  [ i \in 1..Len(rows) |->
            << n.variable_cost_per_unit[rows[i][1]], a.dc_to_market[rows[i]] >> ]

\* The constant of warehousing_cost: fixed_cost_monthly_eur * 12 of every DC.
warehousing_cost_constant(n) ==
    pulp_value(0, [ i \in 1..Len(dcs_rows) |->
                      << MONTHS_PER_YEAR, n.fixed_cost_monthly[dcs_rows[i]] >> ])

unmet_penalty_terms(n, a) ==
    [ i \in 1..Len(markets_rows) |->
        << UNMET_DEMAND_PENALTY, a.unmet_demand[markets_rows[i]] >> ]

\* The dc_to_market terms of the objective: adding warehousing_cost to the
\* sum adds its coefficients to those the variables already have.
dc_to_market_terms(n, a) ==
    LET rows == routes_rows(n.dc_routes, dcs_rows, markets_rows)
    IN  [ i \in 1..Len(rows) |->
            << float(n.route_cost[rows[i]]
                     + n.variable_cost_per_unit[rows[i][1]]),
               a.dc_to_market[rows[i]] >> ]

\* The sum of the five entries of a cost breakdown.
breakdown_sum(b) ==
    b.production + b.transport_plant_dc + b.transport_dc_market
    + b.warehousing + b.unmet_penalty

\* Faulty variant of cost_breakdown: the warehousing entry leaves out the
\* fixed costs.
cost_breakdown_without_fixed_cost(n, a) ==
    [ production          |-> pulp_value(0, production_cost_terms(n, a)),
      transport_plant_dc  |-> pulp_value(0, transport_cost_plant_dc_terms(n, a)),
      transport_dc_market |-> pulp_value(0, transport_cost_dc_market_terms(n, a)),
      warehousing         |-> pulp_value(0, warehousing_cost_terms(n, a)),
      unmet_penalty       |-> pulp_value(0, unmet_penalty_terms(n, a)) ]

\* 'cost_breakdown': pulp.value of each of the five expressions.
cost_breakdown(n, a) ==
    [ production          |-> pulp_value(0, production_cost_terms(n, a)),
      transport_plant_dc  |-> pulp_value(0, transport_cost_plant_dc_terms(n, a)),
      transport_dc_market |-> pulp_value(0, transport_cost_dc_market_terms(n, a)),
      warehousing         |-> pulp_value(warehousing_cost_constant(n),
                                         warehousing_cost_terms(n, a)),
      unmet_penalty       |-> pulp_value(0, unmet_penalty_terms(n, a)) ]

\* 'objective_value': pulp.value(prob.objective).  The objective is one
\* expression: its constant, then the production, plant_to_dc, dc_to_market
\* and unmet_demand variables in the order they entered the sum.
objective_value(n, a) ==
    pulp_value(
      pulp_value(
        pulp_value(
          pulp_value(warehousing_cost_constant(n), production_cost_terms(n, a)),
          transport_cost_plant_dc_terms(n, a)),
        dc_to_market_terms(n, a)),
      unmet_penalty_terms(n, a))

\* The Solution dict with its objective value and cost breakdown as floats.
solution_dict_of_floats(n, scenario_name, status, a) ==
    [ solution_dict(n, scenario_name, status, a) EXCEPT
        !.objective_value = objective_value(n, a),
        !.cost_breakdown = cost_breakdown(n, a) ]

\* The extraction of the Solution after a solve that ended Optimal
\* (_run_optimization from the status check on).
NetworkOptimizer_extract_solution(scenario_name) ==
    /\ solver[scenario_name].status = "Optimal"
    /\ response' = Response("_run_optimization", scenario_name, 200, "",
                            [ solution |->
                                solution_dict_of_floats(
                                    net, scenario_name, "Optimal",
                                    solver[scenario_name].values) ], 1)
    /\ UNCHANGED <<net, solver, baseline_result, results_cache, requests>>

-----------------------------------------------------------------------------
(* Direct use of the engine, as test_scenario_engine does:                 *)
(* engine.run_scenario(scenario_id)                                        *)

engine_run_scenario(scenario_id, timed_out) ==
    LET r == run_scenario(scenario_id, timed_out)
    IN  /\ baseline_result' = r.baseline_result
        /\ response' = Response("run_scenario", scenario_id,
                                IF r.ok THEN 200 ELSE 500, r.error,
                                r.result, r.solves)
        /\ UNCHANGED <<net, solver, results_cache, requests>>

-----------------------------------------------------------------------------
(* Specifications *)

\* The external solver is a deterministic program: for each scenario's
\* program over the loaded tables it has one answer, an optimal assignment
\* or Infeasible.  Which of several optimal assignments it returns is not
\* known, so every choice is an initial state.
SolverAnswers(n) ==
    { [ s \in ScenarioNames |->
          CASE s = "baseline" -> b
            [] s = "cost_optimized" -> c
            [] s = "disruption" -> d ] :
      b \in Solve(n, ConstraintsOf("baseline")),
      c \in Solve(n, ConstraintsOf("cost_optimized")),
      d \in Solve(n, ConstraintsOf("disruption")) }

\* A freshly constructed engine over any of the tables, used directly.
InitEngine ==
    /\ net \in Networks
    /\ solver \in SolverAnswers(net)
    /\ baseline_result = None
    /\ results_cache = <<>>
    /\ response = None
    /\ requests = NoRequests

NextEngine ==
    \E scenario_id \in ScenarioIds, timed_out \in BOOLEAN :
        engine_run_scenario(scenario_id, timed_out)

SpecEngine == InitEngine /\ [][NextEngine]_vars

\* The tables the served process is started over: every plant either idle or
\* at the largest capacity, every market with some demand.
ServedNetworks ==
    { n \in Networks :
        /\ \A p \in Plants : n.capacity[p] \in {0, MaxQty}
        /\ \A m \in Markets : n.demand[m] \in {1, MaxQty}
        /\ n.plant_routes = {<<"P1", "DC1">>, <<"P2", "DC1">>, <<"P2", "DC2">>} }

\* The Flask process after start-up: scenario_engine constructed,
\* results_cache = {}.
Init ==
    /\ net \in ServedNetworks
    /\ solver \in SolverAnswers(net)
    /\ baseline_result = None
    /\ results_cache = <<>>
    /\ response = None
    /\ requests = NoRequests

Next ==
    \/ \E data \in RequestBodies, timed_out \in BOOLEAN :
          run_optimization(data, timed_out)
    \/ \E timed_out \in BOOLEAN : get_kpis(timed_out)
    \/ \E data \in RequestBodies, timed_out \in BOOLEAN :
          export_excel(data, timed_out)

Spec == Init /\ [][Next]_vars

\* The tables of the process that serves several callers at once: every
\* plant at the largest capacity, every market at the largest demand.
ConcurrentNetworks ==
    { n \in ServedNetworks :
        /\ \A p \in Plants : n.capacity[p] = MaxQty
        /\ \A m \in Markets : n.demand[m] = MaxQty }

\* The Flask process serving several callers at once.
InitConcurrent ==
    /\ net \in ConcurrentNetworks
    /\ solver \in SolverAnswers(net)
    /\ baseline_result = None
    /\ results_cache = <<>>
    /\ response = None
    /\ requests = NoRequests

NextConcurrent ==
    \/ \E t \in Callers, endpoint \in Endpoints, data \in RequestBodies :
          request_enters_handler(t, endpoint, data)
    \/ \E t \in Callers, timed_out \in BOOLEAN : request_runs_scenario(t, timed_out)
    \/ \E t \in Callers : request_stores_result(t)

SpecConcurrent == InitConcurrent /\ [][NextConcurrent]_vars

\* Rows of transportation.csv with an end that is in no node table: an
\* unknown plant, an unknown DC (as destination and as origin) and an unknown
\* market.
DanglingRoutes ==
    { [ from_type |-> "plant", key |-> <<"P9", "DC1">> ],
      [ from_type |-> "plant", key |-> <<"P1", "DC9">> ],
      [ from_type |-> "dc",    key |-> <<"DC9", "M1">> ],
      [ from_type |-> "dc",    key |-> <<"DC1", "M9">> ] }

\* load_data reads the tables as they are: the served tables with one such
\* row added to transportation.csv, at cost_per_unit_eur 1.
CorruptNetworks ==
    { [ n EXCEPT
          !.plant_routes = IF r.from_type = "plant" THEN @ \cup {r.key} ELSE @,
          !.dc_routes    = IF r.from_type = "dc" THEN @ \cup {r.key} ELSE @,
          !.route_cost   = (r.key :> 1) @@ @ ] :
      n \in ServedNetworks, r \in DanglingRoutes }

\* An engine constructed over tables with a dangling route.
InitIntegrity ==
    /\ net \in CorruptNetworks
    /\ solver \in SolverAnswers(net)
    /\ baseline_result = None
    /\ results_cache = <<>>
    /\ response = None
    /\ requests = NoRequests

SpecIntegrity == InitIntegrity /\ [][NextEngine]_vars

-----------------------------------------------------------------------------
(* KPICalculator._calculate_resilience_score applied to any Solution       *)

\* self.markets of the calculator: every market with the same demand.
DemandLevels == {0, 20, 40}
KpiTables == { [ demand |-> [m \in Markets |-> q] ] : q \in DemandLevels }

KpiPlants == {"P1", "P2", "P3"}

\* dc_to_market_flows maps of up to MaxRoutes entries, keyed (dc, market) by
\* number: the entries spread over as many DCs, or all from one DC; the
\* first entry may hold a flow of 0.
FlowMaps ==
    { [ r \in { <<i, 1>> : i \in 1..k } |-> IF r[1] <= z THEN 0 ELSE 2 ] :
        k \in 0..MaxRoutes, z \in 0..1 }
    \cup
    { [ r \in { <<1, i>> : i \in 1..k } |-> IF r[2] <= z THEN 0 ELSE 2 ] :
        k \in 0..MaxRoutes, z \in 0..1 }

\* unmet_demand maps: any markets, any values.
UnmetMaps == UNION { [S -> 0..MaxQty] : S \in SUBSET Markets }

\* The parts of a Solution the resilience score reads.
ArbitrarySolutions ==
    { [ production |-> pr, dc_to_market_flows |-> f, unmet_demand |-> u ] :
        pr \in [KpiPlants -> 0..MaxQty], f \in FlowMaps, u \in UnmetMaps }

\* score = self._calculate_resilience_score(solution), called by caller t
\* with the Solution it holds.
KPICalculator_calculate_resilience_score(t) ==
    /\ requests[t].pc = "_calculate_resilience_score"
    /\ response' = [ endpoint |-> "_calculate_resilience_score",
                     solution |-> requests[t].solution,
                     score    |-> calculate_resilience_score(
                                      requests[t].solution, total_demand(net)) ]
    /\ requests' = [requests EXCEPT ![t] = Idle]
    /\ UNCHANGED <<net, solver, baseline_result, results_cache>>

\* A KPI calculator constructed over the tables, and a caller about to hand
\* it a Solution; no engine, no server.
InitResilience ==
    /\ net \in KpiTables
    /\ solver = <<>>
    /\ baseline_result = None
    /\ results_cache = <<>>
    /\ response = None
    /\ requests \in
         { [ t \in Callers |->
               IF t = "caller1"
               THEN [ pc |-> "_calculate_resilience_score", solution |-> x ]
               ELSE Idle ] : x \in ArbitrarySolutions }

NextResilience ==
    \E t \in Callers : KPICalculator_calculate_resilience_score(t)

SpecResilience == InitResilience /\ [][NextResilience]_vars

-----------------------------------------------------------------------------
(* KPICalculator._calculate_weighted_lead_time applied to any flow map     *)

\* self.routes of the calculator: the DC-to-market routes of the first
\* topology, each with a lead time of 1..MaxLeadTime days.
LeadTimeRoutes == {<<"DC1", "M1">>, <<"DC1", "M2">>, <<"DC2", "M2">>}
LeadTimeTables ==
    { [ lead_time_days |-> lt ] : lt \in [LeadTimeRoutes -> 1..MaxLeadTime] }

\* dc_to_market_flows maps over these routes: any of them present, with a
\* negative, zero or positive value.
LeadTimeSolutions ==
    { [ dc_to_market_flows |-> f ] :
        f \in UNION { [S -> (0 - 1)..MaxQty] : S \in SUBSET LeadTimeRoutes } }

\* avg_lead_time = self._calculate_weighted_lead_time(solution), called by
\* caller t with the Solution it holds.
KPICalculator_calculate_weighted_lead_time(t) ==
    /\ requests[t].pc = "_calculate_weighted_lead_time"
    /\ response' = [ endpoint |-> "_calculate_weighted_lead_time",
                     solution |-> requests[t].solution,
                     avg_lead_time |->
                         calculate_weighted_lead_time(requests[t].solution,
                                                      net.lead_time_days) ]
    /\ requests' = [requests EXCEPT ![t] = Idle]
    /\ UNCHANGED <<net, solver, baseline_result, results_cache>>

InitLeadTime ==
    /\ net \in LeadTimeTables
    /\ solver = <<>>
    /\ baseline_result = None
    /\ results_cache = <<>>
    /\ response = None
    /\ requests \in
         { [ t \in Callers |->
               IF t = "caller1"
               THEN [ pc |-> "_calculate_weighted_lead_time", solution |-> x ]
               ELSE Idle ] : x \in LeadTimeSolutions }

NextLeadTime ==
    \E t \in Callers : KPICalculator_calculate_weighted_lead_time(t)

SpecLeadTime == InitLeadTime /\ [][NextLeadTime]_vars

-----------------------------------------------------------------------------
(* The one-plant, one-market network: plant P1 of capacity 50, market M1   *)
(* of demand 120, one route P1 -> DC1 and one route DC1 -> M1, every cost  *)
(* 0 but the plant's cost per unit.  The tables keep their other rows with *)
(* nothing in them: P2 has capacity 0, M2 demand 0 and DC2 no route.       *)
(* Quantities of this network are counted in whole units.  Its properties  *)
(* read the production, the unmet demand (70 units or more in every        *)
(* optimal assignment) and the objective of the Solution, which the        *)
(* materiality threshold leaves as they are.                               *)

OnePlantNetworks ==
    { [ capacity      |-> [p \in Plants |-> IF p = "P1" THEN 50 ELSE 0],
        demand        |-> [m \in Markets |-> IF m = "M1" THEN 120 ELSE 0],
        plant_routes  |-> {<<"P1", "DC1">>},
        dc_routes     |-> {<<"DC1", "M1">>},
        cost_per_unit |-> [p \in Plants |-> IF p = "P1" THEN unit_cost ELSE 0],
        route_cost    |-> [r \in (Plants \X DCs) \cup (DCs \X Markets) |-> 0],
        fixed_cost_monthly     |-> [d \in DCs |-> 0],
        variable_cost_per_unit |-> [d \in DCs |-> 0] ] :
      unit_cost \in 0..MaxUnitCost }

\* An engine constructed over the one-plant network.
InitOnePlant ==
    /\ net \in OnePlantNetworks
    /\ solver \in SolverAnswers(net)
    /\ baseline_result = None
    /\ results_cache = <<>>
    /\ response = None
    /\ requests = NoRequests

SpecOnePlant == InitOnePlant /\ [][NextEngine]_vars

-----------------------------------------------------------------------------
(* Tables whose fixed costs are large against the unit costs, as those of  *)
(* distribution_centers.csv are (180000 a month against 0.18 a unit): the  *)
(* annual fixed cost of the DCs reaches 2^MantissaBits and sums with it    *)
(* round.                                                                  *)

LargeFixedCostNetworks ==
    { [ n EXCEPT !.fixed_cost_monthly =
                     [d \in DCs |-> 2^MantissaBits \div 8] ] : n \in Networks }

\* An optimizer over tables with large fixed costs whose program for each
\* scenario the solver has answered.
InitLargeFixedCost ==
    /\ net \in LargeFixedCostNetworks
    /\ solver \in SolverAnswers(net)
    /\ baseline_result = None
    /\ results_cache = <<>>
    /\ response = None
    /\ requests = NoRequests

NextLargeFixedCost ==
    \E scenario_name \in ScenarioNames :
        NetworkOptimizer_extract_solution(scenario_name)

SpecLargeFixedCost == InitLargeFixedCost /\ [][NextLargeFixedCost]_vars

-----------------------------------------------------------------------------
(* Tables in which every plant has nearly the largest capacity and every   *)
(* market the largest demand, over which the program is compared with the  *)
(* programs of other fixed costs.                                          *)

BusyNetworks ==
    { n \in Networks : /\ \A p \in Plants : n.capacity[p] >= MaxQty - 1
                       /\ \A m \in Markets : n.demand[m] = MaxQty }

\* An engine constructed over tables of BusyNetworks.
InitFixedCost ==
    /\ net \in BusyNetworks
    /\ solver \in SolverAnswers(net)
    /\ baseline_result = None
    /\ results_cache = <<>>
    /\ response = None
    /\ requests = NoRequests

SpecFixedCost == InitFixedCost /\ [][NextEngine]_vars

-----------------------------------------------------------------------------
(* Properties of the Solution a scenario run returns (SpecEngine)          *)

\* The last call returned a result.
Returned == response # None /\ response.code = 200

\* Sum of the entries of a flow map that leave, or enter, a node.
FlowOut(flows, x) == SumOver({ k \in DOMAIN flows : k[1] = x }, flows)
FlowIn(flows, x) == SumOver({ k \in DOMAIN flows : k[2] = x }, flows)

\* Number of routes leaving, or entering, a node that have no entry in a
\* flow map.
OmittedOut(routes, flows, x) ==
    Cardinality({ k \in routes \ DOMAIN flows : k[1] = x })
OmittedIn(routes, flows, x) ==
    Cardinality({ k \in routes \ DOMAIN flows : k[2] = x })

TotalCapacity(n) == SumOver(Plants, n.capacity)

\* C1 as stated: in every returned Solution the production of every plant
\* equals the sum of the plant_to_dc_flows entries leaving it.
C1_ProductionEqualsListedOutflow ==
    Returned =>
        \A p \in Plants :
            response.result.solution.production[p]
            = FlowOut(response.result.solution.plant_to_dc_flows, p)

\* C1 amended: in every returned Solution the production of every plant is
\* at least the sum of the plant_to_dc_flows entries leaving it, and exceeds
\* it by at most 0.1 unit for each route out of the plant that has no entry
\* (an entry is omitted when the flow is <= 0.1).
C1_ProductionWithinMaterialityOfOutflow ==
    Returned =>
        \A p \in Plants :
            LET s == response.result.solution
                diff == s.production[p] - FlowOut(s.plant_to_dc_flows, p)
            IN  /\ 0 <= diff
                /\ diff <= Materiality
                           * OmittedOut(net.plant_routes, s.plant_to_dc_flows, p)

\* A returned Solution in which one plant ships a listed flow equal to its
\* production and another plant produces only a flow that is omitted.
C1_Witness ==
    /\ Returned
    /\ \E p, q \in Plants :
         LET s == response.result.solution
         IN  /\ s.production[p] > Materiality
             /\ s.production[p] = FlowOut(s.plant_to_dc_flows, p)
             /\ s.production[q] > 0
             /\ FlowOut(s.plant_to_dc_flows, q) = 0

\* C2 as stated: in every returned Solution, for every DC, the
\* plant_to_dc_flows entries into it and the dc_to_market_flows entries out
\* of it have the same sum.
C2_ListedInflowEqualsListedOutflow ==
    Returned =>
        \A d \in DCs :
            FlowIn(response.result.solution.plant_to_dc_flows, d)
            = FlowOut(response.result.solution.dc_to_market_flows, d)

\* C2 amended: for every DC the two sums differ by at most 0.1 unit for each
\* omitted route on the smaller side: listed inflow - listed outflow lies
\* between -0.1 * (omitted routes into the DC) and
\* 0.1 * (omitted routes out of the DC).
C2_DCBalanceWithinMateriality ==
    Returned =>
        \A d \in DCs :
            LET s == response.result.solution
                diff == FlowIn(s.plant_to_dc_flows, d)
                        - FlowOut(s.dc_to_market_flows, d)
            IN  /\ diff <= Materiality
                           * OmittedOut(net.dc_routes, s.dc_to_market_flows, d)
                /\ 0 - diff <= Materiality
                           * OmittedIn(net.plant_routes, s.plant_to_dc_flows, d)

\* A returned Solution in which a DC passes on a listed inflow unchanged over
\* one route while another route out of it has no entry.
C2_Witness ==
    /\ Returned
    /\ \E d \in DCs :
         LET s == response.result.solution
         IN  /\ FlowIn(s.plant_to_dc_flows, d) > 0
             /\ FlowIn(s.plant_to_dc_flows, d)
                = FlowOut(s.dc_to_market_flows, d)
             /\ OmittedOut(net.dc_routes, s.dc_to_market_flows, d) > 0

\* C3 as stated: in every returned Solution, for every market, the
\* dc_to_market_flows entries into it plus its unmet_demand entry (0 when
\* absent) equal its demand.
C3_ListedSupplyPlusUnmetEqualsDemand ==
    Returned =>
        \A m \in Markets :
            FlowIn(response.result.solution.dc_to_market_flows, m)
            + GetOr0(response.result.solution.unmet_demand, m)
            = net.demand[m]

\* C3 amended: for every market, listed inflow plus listed unmet demand is
\* at most the demand and falls short of it by at most 0.1 unit for each
\* omitted entry (a route into the market without a flow entry, the market
\* without an unmet_demand entry).
C3_DemandAccountedWithinMateriality ==
    Returned =>
        \A m \in Markets :
            LET s == response.result.solution
                diff == net.demand[m] - FlowIn(s.dc_to_market_flows, m)
                        - GetOr0(s.unmet_demand, m)
                omitted == OmittedIn(net.dc_routes, s.dc_to_market_flows, m)
                           + (IF m \in DOMAIN s.unmet_demand THEN 0 ELSE 1)
            IN  0 <= diff /\ diff <= Materiality * omitted

\* A returned Solution with one market fully served by listed flows and one
\* market whose demand is partly listed as unmet.
C3_Witness ==
    /\ Returned
    /\ \E m \in Markets :
         /\ FlowIn(response.result.solution.dc_to_market_flows, m) > 0
         /\ FlowIn(response.result.solution.dc_to_market_flows, m) = net.demand[m]
    /\ \E m \in Markets :
         /\ m \in DOMAIN response.result.solution.unmet_demand
         /\ response.result.solution.unmet_demand[m] = net.demand[m]

\* C4: in the Solution of the disruption scenario the production of P1 is 0
\* and no plant_to_dc_flows entry leaves P1.
C4_DisabledPlantIdle ==
    (Returned /\ response.scenario_id = "disruption") =>
        /\ response.result.solution.production["P1"] = 0
        /\ \A k \in DOMAIN response.result.solution.plant_to_dc_flows :
               k[1] # "P1"

\* A disruption Solution on a network whose baseline Solution produces at P1.
C4_Witness ==
    /\ Returned
    /\ response.scenario_id = "disruption"
    /\ baseline_result # None
    /\ baseline_result.production["P1"] > Materiality
    /\ FlowOut(baseline_result.plant_to_dc_flows, "P1") > 0

\* C5: in every cost_optimized Solution the listed unmet demand sums to at
\* most total_demand * (1 - 0.90).
C5_FillRateFloor ==
    (Returned /\ response.scenario_id = "cost_optimized") =>
        100 * SumOver(DOMAIN response.result.solution.unmet_demand,
                      response.result.solution.unmet_demand)
            <= total_demand(net) * (100 - MIN_FILL_RATE_PCT)

\* A cost_optimized Solution on a network whose baseline Solution leaves more
\* than 10% of the demand unmet: the baseline carries no such bound.
C5_Witness ==
    /\ Returned
    /\ response.scenario_id = "cost_optimized"
    /\ baseline_result # None
    /\ 100 * SumOver(DOMAIN baseline_result.unmet_demand,
                     baseline_result.unmet_demand)
           > total_demand(net) * (100 - MIN_FILL_RATE_PCT)

\* C6: when the baseline and the disruption run both succeed, the objective
\* value of the disruption Solution is >= that of the baseline Solution.
C6_DisruptionCostsAtLeastBaseline ==
    (Returned /\ response.scenario_id = "disruption" /\ baseline_result # None) =>
        response.result.solution.objective_value
            >= baseline_result.objective_value

\* A disruption Solution that costs strictly more than the baseline Solution.
C6_Witness ==
    /\ Returned
    /\ response.scenario_id = "disruption"
    /\ baseline_result # None
    /\ response.result.solution.objective_value
           > baseline_result.objective_value

\* C7 as stated: for every scenario and every network the program is
\* feasible, so no run fails with status Infeasible.
C7_NeverInfeasible ==
    response # None =>
        response.error # "Optimization failed with status: Infeasible"

\* C7 amended: the programs of the baseline and the disruption scenario are
\* feasible on every network, so only a cost_optimized run can fail with
\* status Infeasible; and it does so whenever the total capacity is below
\* 90% of the total demand.
C7_InfeasibleOnlyUnderFillRateFloor ==
    response # None =>
        /\ response.error = "Optimization failed with status: Infeasible"
               => response.scenario_id = "cost_optimized"
        /\ ( /\ response.scenario_id = "cost_optimized"
             /\ response.error # "Optimization failed with status: Not Solved"
             /\ 100 * TotalCapacity(net) < MIN_FILL_RATE_PCT * total_demand(net) )
               => response.error = "Optimization failed with status: Infeasible"

\* A disruption Solution on a network whose capacity without P1 is below
\* the demand: the shortfall is unmet demand, not infeasibility.
C7_Witness ==
    /\ Returned
    /\ response.scenario_id = "disruption"
    /\ net.capacity["P2"] < total_demand(net)
    /\ response.result.solution.unmet_demand # <<>>

-----------------------------------------------------------------------------
(* Properties of the request handlers and the results cache (Spec)         *)

CacheReadingEndpoints == {"/api/kpis", "/api/export-excel"}

\* The step is a request for a scenario id that has a cache entry.
RequestForCached ==
    response' # None /\ response'.scenario_id \in DOMAIN results_cache

\* C8 as stated: a request for a scenario with a cached result returns the
\* cached result without running the optimizer, the optimizer runs only when
\* the scenario has no cached result, and a successful run is cached under
\* the scenario id.
C8_CachedResultNeverRecomputed ==
    [][ /\ RequestForCached =>
              /\ response'.solves = 0
              /\ response'.result = results_cache[response'.scenario_id]
        /\ (response' # None /\ response'.solves > 0 /\ response'.code = 200) =>
              /\ response'.scenario_id \in DOMAIN results_cache'
              /\ results_cache'[response'.scenario_id] = response'.result
      ]_vars

\* C8 amended: /api/kpis and /api/export-excel return a cached result
\* without running the optimizer and run it only when the scenario has no
\* cache entry; /api/optimize runs the optimizer on every request with a
\* valid scenario id, cached or not; every successful run is stored in the
\* cache under the scenario id, replacing an earlier entry.
C8_CacheReadByKpisAndExportOnly ==
    [][ response' # None =>
        /\ (RequestForCached /\ response'.endpoint \in CacheReadingEndpoints) =>
              /\ response'.solves = 0
              /\ response'.result = results_cache[response'.scenario_id]
              /\ results_cache' = results_cache
        /\ (response'.solves > 0 /\ response'.endpoint \in CacheReadingEndpoints) =>
              response'.scenario_id \notin DOMAIN results_cache
        /\ (response'.endpoint = "/api/optimize" /\ response'.code # 400) =>
              response'.solves = 1
        /\ (response'.solves > 0 /\ response'.code = 200) =>
              /\ response'.scenario_id \in DOMAIN results_cache'
              /\ results_cache'[response'.scenario_id] = response'.result
      ]_vars

\* /api/export-excel has answered from the cache, without a run, for a
\* scenario other than the baseline.
C8_Witness ==
    /\ response # None
    /\ response.endpoint = "/api/export-excel"
    /\ response.scenario_id = "disruption"
    /\ response.code = 200
    /\ response.solves = 0
    /\ response.result = results_cache["disruption"]

\* The last request ran the optimizer and the run failed.
RunFailed == response # None /\ response.solves > 0 /\ response.code # 200

\* C9 as stated: a failed request leaves the cache as it was, and the next
\* request for the scenario of a failed run runs the optimizer again.
C9_FailedRunNotCachedAndRetried ==
    [][ /\ (response' # None /\ response'.code # 200) =>
              results_cache' = results_cache
        /\ (RunFailed /\ response' # None
                /\ response'.scenario_id = response.scenario_id) =>
              response'.solves = 1
      ]_vars

\* C9 amended: a failed request leaves the cache as it was; the next request
\* for the scenario of a failed run runs the optimizer again, unless the
\* cache still holds the entry of an earlier successful run of that scenario
\* and the request is one /api/kpis or /api/export-excel answers from it.
C9_FailedRunNotCached ==
    [][ /\ (response' # None /\ response'.code # 200) =>
              results_cache' = results_cache
        /\ (RunFailed /\ response' # None
                /\ response'.scenario_id = response.scenario_id) =>
              \/ response'.solves = 1
              \/ /\ response.scenario_id \in DOMAIN results_cache
                 /\ response'.endpoint \in CacheReadingEndpoints
                 /\ response'.result = results_cache[response.scenario_id]
      ]_vars

\* A run has failed and its scenario has no cache entry, while another
\* scenario has one.
C9_Witness ==
    /\ RunFailed
    /\ response.scenario_id \notin DOMAIN results_cache
    /\ results_cache # <<>>

\* C10: a request whose scenario id is none of baseline, cost_optimized,
\* disruption is answered with an error, runs no optimization and leaves
\* baseline_result and the cache as they were.
C10_UnknownScenarioChangesNothing ==
    [][ (response' # None /\ response'.scenario_id \notin ScenarioNames) =>
          /\ response'.code \in {400, 500}
          /\ response'.error \in {"Invalid scenario", "Unknown scenario"}
          /\ response'.result = None
          /\ response'.solves = 0
          /\ baseline_result' = baseline_result
          /\ results_cache' = results_cache
      ]_vars

\* /api/export-excel has rejected an unknown scenario id in a process that
\* holds a baseline solution and cache entries.
C10_Witness ==
    /\ response # None
    /\ response.endpoint = "/api/export-excel"
    /\ response.scenario_id \notin ScenarioNames
    /\ response.error = "Unknown scenario"
    /\ baseline_result # None
    /\ results_cache # <<>>

-----------------------------------------------------------------------------
(* Solver status (Spec)                                                    *)

SolverFailures ==
    { "Optimization failed with status: Infeasible",
      "Optimization failed with status: Not Solved" }

\* C11: a run whose solve does not end with status Optimal raises: the
\* request returns no Solution and stores nothing, neither in the cache nor
\* in baseline_result.  Every Solution that is returned or stored has status
\* Optimal and is the solver's optimal assignment for that scenario.
C11_NonOptimalStatusRaises ==
    [][ (response' # None /\ response'.solves > 0) =>
          LET id == response'.scenario_id
          IN  /\ solver[id].status # "Optimal" => response'.result = None
              /\ response'.error \in SolverFailures => response'.result = None
              /\ response'.result = None =>
                    /\ response'.code = 500
                    /\ response'.error \in SolverFailures
                    /\ results_cache' = results_cache
                    /\ baseline_result' = baseline_result
              /\ response'.result # None =>
                    /\ solver[id].status = "Optimal"
                    /\ response'.result.solution
                         = solution_dict(net, id, "Optimal", solver[id].values)
              /\ \A k \in DOMAIN results_cache' :
                    results_cache'[k].solution.status = "Optimal"
              /\ baseline_result' # None => baseline_result'.status = "Optimal"
      ]_vars

\* A cost_optimized run has ended Infeasible in a process whose cache holds
\* results of other scenarios; it returned nothing and is not in the cache.
C11_Witness ==
    /\ response # None
    /\ response.solves = 1
    /\ response.error = "Optimization failed with status: Infeasible"
    /\ response.result = None
    /\ results_cache # <<>>
    /\ response.scenario_id \notin DOMAIN results_cache

-----------------------------------------------------------------------------
(* Referential integrity of the routes (SpecIntegrity)                     *)

\* Some route of the tables names a plant, DC or market that is in no node
\* table.
HasDanglingRoute(n) ==
    \/ \E r \in n.plant_routes : r[1] \notin Plants \/ r[2] \notin DCs
    \/ \E r \in n.dc_routes : r[1] \notin DCs \/ r[2] \notin Markets

\* C12 as stated: over tables with a route to or from an absent node, every
\* run of a known scenario fails, and fails before the solver is invoked.
C12_DanglingRouteFailsBeforeSolve ==
    (HasDanglingRoute(net) /\ response # None
        /\ response.scenario_id \in ScenarioNames)
    => /\ response.code = 500
       /\ response.result = None
       /\ response.solves = 0

-----------------------------------------------------------------------------
(* The comparison and the retained baseline solution (SpecEngine)          *)

\* The step is a run of the baseline scenario whose optimization succeeded.
BaselineSucceeds ==
    /\ response' # None
    /\ response'.scenario_id = "baseline"
    /\ response'.solves = 1
    /\ response'.result # None

\* C13: the engine holds a baseline solution exactly when a baseline
\* optimization has succeeded on it before, and a returned result carries a
\* comparison exactly when its scenario is not baseline and the engine held a
\* baseline solution when the run started; a baseline run returns
\* comparison = None.
C13_ComparisonIffBaselineRan ==
    /\ baseline_result = None
    /\ [][ /\ (baseline_result' # None)
                <=> (baseline_result # None \/ BaselineSucceeds)
           /\ (response' # None /\ response'.result # None) =>
                ( (response'.result.comparison # None)
                    <=> /\ response'.scenario_id # "baseline"
                        /\ baseline_result # None )
         ]_vars

\* A disruption run after a successful baseline run has returned a result
\* with a comparison.
C13_Witness ==
    /\ response # None
    /\ response.scenario_id = "disruption"
    /\ response.result # None
    /\ response.result.comparison # None
    /\ baseline_result # None

\* C14: baseline_result is None until a baseline optimization succeeds; a
\* baseline run whose optimization succeeded leaves in it the Solution of
\* that run; every other call (cost_optimized, disruption, an unknown id, a
\* baseline run that failed) leaves it as it was.
C14_BaselineResultIsLastSuccessfulBaseline ==
    /\ baseline_result = None
    /\ [][ IF BaselineSucceeds
           THEN /\ baseline_result' = response'.result.solution
                /\ baseline_result'
                     = solution_dict(net, "baseline", "Optimal",
                                     solver["baseline"].values)
           ELSE baseline_result' = baseline_result
         ]_vars

\* A baseline run has failed on an engine that holds the Solution of an
\* earlier baseline run.
C14_Witness ==
    /\ response # None
    /\ response.scenario_id = "baseline"
    /\ response.solves = 1
    /\ response.result = None
    /\ baseline_result # None
    /\ baseline_result.scenario = "baseline"

-----------------------------------------------------------------------------
(* Lifetime of cache entries (Spec)                                        *)

\* C15: no request removes an entry from the cache: a scenario id that has an
\* entry has one after every step, hence in every later state.
C15_CacheEntriesAreNeverEvicted ==
    [][ DOMAIN results_cache \subseteq DOMAIN results_cache' ]_vars

\* A run of a scenario has failed while the cache holds that scenario's
\* entry from an earlier run, and the entry is still there.
C15_Witness ==
    /\ response # None
    /\ response.code = 500
    /\ response.solves = 1
    /\ response.scenario_id \in DOMAIN results_cache
    /\ results_cache[response.scenario_id].scenario_id = response.scenario_id

-----------------------------------------------------------------------------
(* Concurrent requests for one scenario (SpecConcurrent)                   *)

\* The caller's request has found no cache entry for its scenario and is
\* running the pipeline or about to write its result.
InPipeline(t) ==
    /\ requests[t].pc \in {"run_scenario", "store"}
    /\ requests[t].endpoint \in {"/api/kpis", "/api/export-excel"}

\* C16 as stated, for the handlers that read the cache: of the callers
\* requesting one scenario at the same time, at most one is past the cache
\* test, computing the pipeline and writing the entry of that key; the others
\* read the stored result.
C16_OnePipelinePerScenarioKey ==
    \A t1, t2 \in Callers :
        (t1 # t2 /\ InPipeline(t1) /\ InPipeline(t2))
        => requests[t1].scenario_id # requests[t2].scenario_id

-----------------------------------------------------------------------------
(* Determinism of a scenario's Solution (SpecConcurrent)                   *)

\* Two Solutions with the same objective value and the same flow maps.
SameOutcome(a, b) ==
    /\ a.objective_value = b.objective_value
    /\ a.plant_to_dc_flows = b.plant_to_dc_flows
    /\ a.dc_to_market_flows = b.dc_to_market_flows

\* The caller's request has run its scenario and holds the result.
HoldsResult(t) == requests[t].pc = "store" /\ requests[t].r.ok

-----------------------------------------------------------------------------
(* The resilience score (SpecResilience)                                   *)

\* The calculator has returned a score.
Scored == response # None /\ response.endpoint = "_calculate_resilience_score"

\* C18: whatever the production, flow and unmet-demand maps of the Solution,
\* the resilience score is an integer from 0 to 100.
C18_ResilienceScoreInRange ==
    Scored => response.score \in 0..100

\* A score has been computed for a Solution that incurs all three
\* deductions: one plant producing everything, a single flow entry, all
\* demand unmet.
C18_Witness ==
    /\ Scored
    /\ concentration_deduction(response.solution) = 20
    /\ dc_coverage_deduction(response.solution) = 15
    /\ unmet_deduction(response.solution, total_demand(net)) = 20
    /\ response.score < 50

\* The distribution centers that are the origin of a non-zero flow.
DistinctActiveDCs(solution) ==
    { k[1] : k \in { x \in DOMAIN solution.dc_to_market_flows :
                       solution.dc_to_market_flows[x] > 0 } }

\* The score is 15 below what the other two deductions leave.
CoverageDeductionApplied ==
    100 - concentration_deduction(response.solution)
        - unmet_deduction(response.solution, total_demand(net))
        - response.score = 15

\* C19 as stated: the score carries the DC-coverage deduction of 15 exactly
\* when fewer than 8 distinct distribution centers have non-zero outbound
\* flow in the Solution.
C19_CoverageDeductionIffFewerThan8DCs ==
    Scored =>
        ( CoverageDeductionApplied
            <=> Cardinality(DistinctActiveDCs(response.solution)) < 8 )

\* The largest plant share of total production is strictly above pct percent.
LargestShareAbove(solution, pct) ==
    /\ SumValues(solution.production) > 0
    /\ \E p \in DOMAIN solution.production :
          100 * solution.production[p] > pct * SumValues(solution.production)

\* Total unmet demand is strictly above pct percent of total demand.
UnmetAbove(solution, pct) ==
    100 * SumValues(solution.unmet_demand) > pct * total_demand(net)

\* C20: the score is max(0, 100 - C - D - U), each deduction evaluated on its
\* own: C is 20 if the largest plant share is strictly above 40%, else 10 if
\* strictly above 35%, else 0; U is 20 if unmet demand is strictly above 10%
\* of total demand, else 10 if strictly above 5%, else 0; D is the
\* DC-coverage deduction the calculator makes.
C20_ScoreIsHundredMinusDeductions ==
    Scored =>
        LET s == response.solution
            C == IF LargestShareAbove(s, 40) THEN 20
                 ELSE IF LargestShareAbove(s, 35) THEN 10 ELSE 0
            U == IF UnmetAbove(s, 10) THEN 20
                 ELSE IF UnmetAbove(s, 5) THEN 10 ELSE 0
            D == dc_coverage_deduction(s)
            raw == 100 - C - D - U
        IN  response.score = IF raw > 0 THEN raw ELSE 0

\* A score has been computed for a Solution whose largest plant share is
\* exactly 40% (deduction 10), whose unmet demand is exactly 10% of total
\* demand (deduction 10) and whose flow map is large enough for no coverage
\* deduction.
C20_Witness ==
    /\ Scored
    /\ 100 * MaxValue(response.solution.production)
         = 40 * SumValues(response.solution.production)
    /\ SumValues(response.solution.production) > 0
    /\ 100 * SumValues(response.solution.unmet_demand) = 10 * total_demand(net)
    /\ total_demand(net) > 0
    /\ dc_coverage_deduction(response.solution) = 0
    /\ response.score = 80

-----------------------------------------------------------------------------
(* The weighted lead time (SpecLeadTime)                                   *)

\* The calculator has returned a weighted lead time.
LeadTimeReturned ==
    response # None /\ response.endpoint = "_calculate_weighted_lead_time"

\* The routes of the Solution with a flow greater than 0.
PositiveFlows(solution) ==
    { k \in DOMAIN solution.dc_to_market_flows :
        solution.dc_to_market_flows[k] > 0 }

\* C21: the weighted lead time is the sum of flow * lead_time over the
\* DC-to-market flows greater than 0 divided by the sum of those flows, and
\* it is 0 when the Solution has no flow greater than 0.
C21_WeightedLeadTime ==
    LeadTimeReturned =>
        LET f == response.solution.dc_to_market_flows
            P == PositiveFlows(response.solution)
            volume == SumOver(P, f)
            weighted == SumOver(P, [k \in P |-> f[k] * net.lead_time_days[k]])
            q == response.avg_lead_time
        IN  /\ q.divisor > 0
            /\ IF P = {} THEN q.dividend = 0
               ELSE q.dividend * volume = weighted * q.divisor

\* A lead time has been computed over two positive flows on routes of
\* different lead times, with a negative entry in the same map.
C21_Witness ==
    /\ LeadTimeReturned
    /\ \E j, k \in PositiveFlows(response.solution) :
          net.lead_time_days[j] # net.lead_time_days[k]
    /\ \E k \in DOMAIN response.solution.dc_to_market_flows :
          response.solution.dc_to_market_flows[k] < 0
    /\ response.avg_lead_time.dividend > response.avg_lead_time.divisor

-----------------------------------------------------------------------------
(* The baseline Solution of the one-plant network (SpecOnePlant) *)

\* A baseline run has returned its Solution.
BaselineReturned ==
    Returned /\ response.result.solution.scenario = "baseline"

\* cost_per_unit_eur of the plant of the one-plant network.
unit_cost == net.cost_per_unit["P1"]

\* C22 as stated: on the network of one plant of capacity 50 and one market
\* of demand 120 with zero-cost routes through a zero-cost DC, the baseline
\* Solution has production 50, unmet demand 70 and objective
\* 50 * unit cost + 70 * 5.0, whatever the plant's unit cost.
C22_ShortfallSolutionForEveryUnitCost ==
    BaselineReturned =>
        LET s == response.result.solution
        IN  /\ s.production["P1"] = 50
            /\ GetOr0(s.unmet_demand, "M1") = 70
            /\ s.objective_value = 50 * unit_cost + 70 * UNMET_DEMAND_PENALTY

\* C22 amended: on that network the baseline Solution has production 50,
\* unmet demand 70 and objective 50 * unit cost + 70 * 5.0 when the plant's
\* unit cost is below the penalty of 5.0; production 0, unmet demand 120 and
\* objective 120 * 5.0 when the unit cost is above 5.0; and objective
\* 120 * 5.0 with production + unmet demand = 120 when the unit cost is 5.0.
C22_ShortfallSolutionByUnitCost ==
    BaselineReturned =>
        LET s == response.result.solution
            production == s.production["P1"]
            unmet == GetOr0(s.unmet_demand, "M1")
        IN  /\ unit_cost < UNMET_DEMAND_PENALTY =>
                 /\ production = 50
                 /\ unmet = 70
                 /\ s.objective_value
                    = 50 * unit_cost + 70 * UNMET_DEMAND_PENALTY
            /\ unit_cost > UNMET_DEMAND_PENALTY =>
                 /\ production = 0
                 /\ unmet = 120
                 /\ s.objective_value = 120 * UNMET_DEMAND_PENALTY
            /\ unit_cost = UNMET_DEMAND_PENALTY =>
                 /\ production + unmet = 120
                 /\ s.objective_value = 120 * UNMET_DEMAND_PENALTY

\* A baseline Solution of the one-plant network with a positive unit cost
\* below the penalty: the plant runs at capacity and 70 units stay unmet.
C22_Witness ==
    /\ BaselineReturned
    /\ unit_cost > 0
    /\ unit_cost < UNMET_DEMAND_PENALTY
    /\ response.result.solution.production["P1"] = 50
    /\ GetOr0(response.result.solution.unmet_demand, "M1") = 70

-----------------------------------------------------------------------------
(* The cost breakdown of a Solution (SpecLargeFixedCost) *)

\* Largest number of roundings a term of the objective goes through: its
\* coefficient, its product, and one addition for every variable and every
\* DC constant.
RoundingSteps(n) ==
    2 + Len(dcs_rows) + Len(plants_rows) + Cardinality(n.plant_routes)
    + Cardinality(n.dc_routes) + Len(markets_rows)

Abs(x) == IF x < 0 THEN -x ELSE x

-----------------------------------------------------------------------------
(* The flow maps of a Solution (SpecEngine) *)

\* The solver's values behind the returned Solution.
SolverValues == solver[response.result.solution.scenario].values

\* C24: the plant_to_dc_flows and dc_to_market_flows maps of a Solution
\* contain exactly the routes whose solver value is > 0.1, each with the
\* solver's value; a route whose flow is 0.1 or less has no entry.
C24_FlowMapsHoldExactlyTheMaterialFlows ==
    Returned =>
        LET s == response.result.solution
        IN  /\ DOMAIN s.plant_to_dc_flows
               = { r \in net.plant_routes :
                     SolverValues.plant_to_dc[r] > Materiality }
            /\ \A r \in DOMAIN s.plant_to_dc_flows :
                 s.plant_to_dc_flows[r] = SolverValues.plant_to_dc[r]
            /\ DOMAIN s.dc_to_market_flows
               = { r \in net.dc_routes :
                     SolverValues.dc_to_market[r] > Materiality }
            /\ \A r \in DOMAIN s.dc_to_market_flows :
                 s.dc_to_market_flows[r] = SolverValues.dc_to_market[r]

\* A Solution in which one route carries a listed flow, one route a flow of
\* exactly 0.1 that has no entry, and one route no flow, in both tiers.
C24_Witness ==
    /\ Returned
    /\ DOMAIN response.result.solution.plant_to_dc_flows # {}
    /\ DOMAIN response.result.solution.dc_to_market_flows # {}
    /\ \E r \in net.plant_routes : SolverValues.plant_to_dc[r] = Materiality
    /\ \E r \in net.dc_routes : SolverValues.dc_to_market[r] = Materiality
    /\ \E r \in net.plant_routes : SolverValues.plant_to_dc[r] = 0
    /\ \E r \in net.dc_routes : SolverValues.dc_to_market[r] = 0

-----------------------------------------------------------------------------
(* The fixed costs of the DCs in the program (SpecFixedCost) *)

\* Tables of fixed_cost_monthly_eur: none or large, DC by DC.
FixedCostTables == [DCs -> {0, 2^MantissaBits \div 8}]

\* The tables of n with the fixed costs f in place of its own.
WithFixedCosts(n, f) == [n EXCEPT !.fixed_cost_monthly = f]

\* C25: the fixed cost of every DC, 12 times its monthly fixed cost, is part
\* of the warehousing cost and of the objective whether or not the DC
\* carries flow; the program of a network that differs from the loaded one
\* only in the DCs' fixed costs has the same optimal assignments, and the
\* two objectives differ by 12 times the difference of the summed fixed
\* costs.
C25_FixedCostsShiftTheObjective ==
    Returned =>
        LET c == ConstraintsOf(response.result.solution.scenario)
            fixed == MONTHS_PER_YEAR * SumOver(DCs, net.fixed_cost_monthly)
            optimal == Solve(net, c)
        IN  /\ warehousing_cost(net, SolverValues)
               = fixed + SumOver(net.dc_routes,
                           [r \in net.dc_routes |->
                              SolverValues.dc_to_market[r]
                              * net.variable_cost_per_unit[r[1]]])
            /\ \A f \in FixedCostTables :
                 LET other == WithFixedCosts(net, f)
                 IN  /\ Solve(other, c) = optimal
                     /\ Total_Cost(other, SolverValues)
                        - Total_Cost(net, SolverValues)
                        = MONTHS_PER_YEAR * SumOver(DCs, f) - fixed

\* A Solution over tables with a fixed cost on a DC that ships nothing while
\* the other DC ships.
C25_Witness ==
    /\ Returned
    /\ \E d, e \in DCs :
         /\ net.fixed_cost_monthly[d] > 0
         /\ \A m \in Markets : GetOr0(SolverValues.dc_to_market, <<d, m>>) = 0
         /\ \E m \in Markets : GetOr0(SolverValues.dc_to_market, <<e, m>>) > 0

-----------------------------------------------------------------------------
(* The cost of the cost_optimized scenario against the baseline            *)

\* The solver finished both the baseline and the cost_optimized program.
BothRunsSucceed ==
    /\ solver["baseline"].status = "Optimal"
    /\ solver["cost_optimized"].status = "Optimal"

\* A cost_optimized run has returned with a comparison to the baseline.
CostOptimizedCompared ==
    /\ Returned
    /\ response.scenario_id = "cost_optimized"
    /\ response.result.comparison # None

-----------------------------------------------------------------------------
(* Totals of a Solution (SpecEngine) *)

\* Sum of the capacities of the plants the Solution's scenario does not
\* disable.
EnabledCapacity ==
    LET c == ConstraintsOf(response.result.solution.scenario)
    IN  SumOver(Plants,
                [p \in Plants |->
                   IF "disabled_plants" \in c.keys /\ p \in c.disabled_plants
                   THEN 0 ELSE net.capacity[p]])

\* max(0, total demand - capacity of the enabled plants)
Shortfall ==
    IF total_demand(net) > EnabledCapacity
    THEN total_demand(net) - EnabledCapacity ELSE 0

\* Number of markets without an entry in the Solution's unmet_demand map.
MarketsWithoutUnmetEntry ==
    Cardinality(Markets \ DOMAIN response.result.solution.unmet_demand)

\* C27 as stated: in every Solution of every scenario the total unmet demand
\* is at least max(0, total demand - capacity of the plants not disabled),
\* and total production equals total demand minus total unmet demand.
C27_UnmetCoversShortfallAndProductionTheRest ==
    Returned =>
        LET s == response.result.solution
        IN  /\ SumValues(s.unmet_demand) >= Shortfall
            /\ SumValues(s.production)
               = total_demand(net) - SumValues(s.unmet_demand)

\* C27 amended: in every Solution of every scenario the total of the listed
\* unmet demand is at least max(0, total demand - capacity of the plants not
\* disabled) less 0.1 unit for each market without an unmet_demand entry, and
\* total production is at most total demand minus the listed unmet demand
\* and falls short of it by at most 0.1 unit for each such market.
C27_TotalsWithinMateriality ==
    Returned =>
        LET s == response.result.solution
            allowance == Materiality * MarketsWithoutUnmetEntry
            rest == total_demand(net) - SumValues(s.unmet_demand)
        IN  /\ SumValues(s.unmet_demand) + allowance >= Shortfall
            /\ SumValues(s.production) <= rest
            /\ SumValues(s.production) >= rest - allowance

\* A disruption Solution on tables whose enabled plant cannot serve the
\* demand: it produces, and lists unmet demand.
C27_Witness ==
    /\ Returned
    /\ response.result.solution.scenario = "disruption"
    /\ Shortfall > 0
    /\ SumValues(response.result.solution.production) > 0
    /\ SumValues(response.result.solution.unmet_demand) >= Shortfall
    /\ MarketsWithoutUnmetEntry > 0

-----------------------------------------------------------------------------
(* The direction tags of a comparison (SpecEngine) *)

\* A run has returned a result that carries a comparison to the baseline.
Compared == Returned /\ response.result.comparison # None

\* Total of the unmet demand listed in a Solution.
ListedUnmet(solution) == SumValues(solution.unmet_demand)

\* Resilience score of a Solution over the loaded tables.
ResilienceOf(solution) ==
    calculate_resilience_score(solution, total_demand(net))

\* C28: every direction tag of compare_to_baseline is given by a strict
\* comparison: 'savings', 'improvement' and 'stronger' exactly for a strictly
\* lower cost, a strictly higher fill rate and a strictly higher resilience
\* score than the baseline's, and otherwise, also when the value equals the
\* baseline's and the delta is 0, 'increase', 'degradation' and 'weaker'.
C28_TagsAreStrict ==
    Compared =>
        LET s == response.result.solution
            cmp == response.result.comparison
        IN  /\ cmp.cost_delta.interpretation
               = IF s.objective_value < baseline_result.objective_value
                 THEN "savings" ELSE "increase"
            /\ cmp.cost_delta.value = 0 =>
                 cmp.cost_delta.interpretation = "increase"
            /\ cmp.fill_rate_delta.interpretation
               = IF /\ total_demand(net) > 0
                    /\ ListedUnmet(s) < ListedUnmet(baseline_result)
                 THEN "improvement" ELSE "degradation"
            /\ cmp.fill_rate_delta.value.dividend = 0 =>
                 cmp.fill_rate_delta.interpretation = "degradation"
            /\ cmp.resilience_delta.interpretation
               = IF ResilienceOf(s) > ResilienceOf(baseline_result)
                 THEN "stronger" ELSE "weaker"
            /\ cmp.resilience_delta.value = 0 =>
                 cmp.resilience_delta.interpretation = "weaker"

\* A comparison of a Solution whose cost, fill rate and resilience score
\* equal the baseline's, on tables with demand: the three deltas are 0.
C28_Witness ==
    /\ Compared
    /\ total_demand(net) > 0
    /\ response.result.comparison.cost_delta.value = 0
    /\ response.result.comparison.fill_rate_delta.value.dividend = 0
    /\ response.result.comparison.resilience_delta.value = 0
    /\ response.result.comparison.cost_delta.interpretation = "increase"

-----------------------------------------------------------------------------
(* The retained baseline and the cached baseline (SpecConcurrent) *)

\* No request is in progress.
Quiescent == \A t \in Callers : requests[t] = Idle

\* C29: at every state where no request is in progress, if results_cache
\* has the key 'baseline' then the engine's baseline_result is set and is the
\* solution of results_cache['baseline'].
C29_CachedBaselineIsRetainedBaseline ==
    (Quiescent /\ "baseline" \in DOMAIN results_cache) =>
        /\ baseline_result # None
        /\ baseline_result = results_cache["baseline"].solution

\* No request is in progress, the cache holds the baseline and another
\* scenario that was run after it, with a comparison.
C29_Witness ==
    /\ Quiescent
    /\ "baseline" \in DOMAIN results_cache
    /\ \E k \in DOMAIN results_cache :
         k # "baseline" /\ results_cache[k].comparison # None
    /\ baseline_result = results_cache["baseline"].solution

-----------------------------------------------------------------------------
(* The values of the resilience score (SpecResilience) *)

\* C30: the resilience score is never below 45: the three deductions are at
\* most 20 + 15 + 20, so the floor at 0 never takes effect, and the score is
\* one of 45, 55, 60, 65, 70, 75, 80, 85, 90 and 100.
C30_ResilienceScoreAtLeast45 ==
    Scored =>
        /\ response.score >= 45
        /\ response.score \in {45, 55, 60, 65, 70, 75, 80, 85, 90, 100}
        /\ response.score
           = 100 - concentration_deduction(response.solution)
                 - dc_coverage_deduction(response.solution)
                 - unmet_deduction(response.solution, total_demand(net))

\* The lowest score has been computed: a Solution with every deduction at its
\* largest.
C30_Witness ==
    /\ Scored
    /\ response.score = 45

=============================================================================
